---- MODULE Spec2Model ----
(***************************************************************************)
(* Full-text search engine: the analyzer pipeline and the two inverted     *)
(* index engines (Index, ConcurrentIndex) with TF-IDF scoring.             *)
(*                                                                         *)
(* Texts and tokens are sequences of one-character strings.  Weights and   *)
(* scores (float64 in the program) are fixed-point integers with Scale     *)
(* units per 1.0.                                                          *)
(***************************************************************************)
EXTENDS Integers, Sequences, FiniteSets, Bags, TLC

(***************************************************************************)
(* Bounds of the model.                                                    *)
(***************************************************************************)
\* documents an index may hold (docCount) before the driver stops adding
MaxDocs == 3
\* documents in one Add call
MaxBatch == 2
\* runtime.NumCPU(): workers of one ConcurrentIndex.Add
NumWorkers == 2

(***************************************************************************)
(* Characters.  Go strings are UTF-8: len(s) counts bytes, and a letter    *)
(* outside ASCII takes more than one byte.                                 *)
(***************************************************************************)
LowerLetters ==
  { "a","b","c","d","e","f","g","h","i","j","k","l","m","n","o","p","q",
    "r","s","t","u","v","w","x","y","z" }

UpperLetters == { "A", "D", "T" }

\* letters that UTF-8 encodes in two bytes
WideLetters == { "é" }

Digits == { "0", "1", "2", "3", "4", "5", "6", "7", "8", "9" }

IsLetter(c) == c \in LowerLetters \cup UpperLetters \cup WideLetters

IsNumber(c) == c \in Digits

ByteLen(c) == IF c \in WideLetters THEN 2 ELSE 1

RECURSIVE StrLen(_)
\* len(token): the number of bytes of the string
StrLen(s) == IF s = <<>> THEN 0 ELSE ByteLen(Head(s)) + StrLen(Tail(s))

ToLower(c) ==
  CASE c = "A" -> "a"
    [] c = "D" -> "d"
    [] c = "T" -> "t"
    [] OTHER -> c

(***************************************************************************)
(* Analyzer pipeline.                                                      *)
(***************************************************************************)
RECURSIVE TokenizeFrom(_, _, _)
TokenizeFrom(text, cur, acc) ==
  IF text = <<>>
    THEN IF cur = <<>> THEN acc ELSE Append(acc, cur)
    ELSE IF IsLetter(Head(text)) \/ IsNumber(Head(text))
           THEN TokenizeFrom(Tail(text), Append(cur, Head(text)), acc)
           ELSE TokenizeFrom(Tail(text), <<>>,
                             IF cur = <<>> THEN acc ELSE Append(acc, cur))

\* split into maximal runs of letters and digits
tokenize(text) == TokenizeFrom(text, <<>>, <<>>)

lowercaseFilter(tokens) ==
  [i \in 1..Len(tokens) |-> [j \in 1..Len(tokens[i]) |-> ToLower(tokens[i][j])]]

RECURSIVE TrimLeft(_)
TrimLeft(s) ==
  IF s # <<>> /\ ~IsLetter(Head(s)) /\ ~IsNumber(Head(s))
    THEN TrimLeft(Tail(s)) ELSE s

RECURSIVE TrimRight(_)
TrimRight(s) ==
  IF s # <<>> /\ ~IsLetter(s[Len(s)]) /\ ~IsNumber(s[Len(s)])
    THEN TrimRight(SubSeq(s, 1, Len(s) - 1)) ELSE s

\* strings.TrimFunc(token, not letter and not number)
TrimFunc(s) == TrimRight(TrimLeft(s))

\* the filter's threshold on len(token)
MinTokenLen == 2

RECURSIVE characterFilter(_)
characterFilter(tokens) ==
  IF tokens = <<>> THEN <<>>
  ELSE LET token == TrimFunc(Head(tokens))
           rest == characterFilter(Tail(tokens))
       IN IF StrLen(token) < MinTokenLen THEN rest ELSE <<token>> \o rest

StopWords ==
  { <<"a">>, <<"a","b","o","u","t">>, <<"a","b","o","v","e">>, <<"a","f","t","e","r">>,
    <<"a","g","a","i","n">>, <<"a","g","a","i","n","s","t">>, <<"a","l","l">>,
    <<"a","m">>, <<"a","n">>, <<"a","n","d">>, <<"a","n","y">>, <<"a","r","e">>,
    <<"a","r","e","n","'","t">>, <<"a","s">>, <<"a","t">>, <<"b","e">>,
    <<"b","e","c","a","u","s","e">>, <<"b","e","e","n">>, <<"b","e","f","o","r","e">>,
    <<"b","e","i","n","g">>, <<"b","e","l","o","w">>, <<"b","e","t","w","e","e","n">>,
    <<"b","o","t","h">>, <<"b","u","t">>, <<"b","y">>, <<"c","a","n">>,
    <<"c","a","n","'","t">>, <<"c","a","n","n","o","t">>, <<"c","o","u","l","d">>,
    <<"c","o","u","l","d","n","'","t">>, <<"d","i","d">>, <<"d","i","d","n","'","t">>,
    <<"d","o">>, <<"d","o","e","s">>, <<"d","o","e","s","n","'","t">>,
    <<"d","o","i","n","g">>, <<"d","o","n","'","t">>, <<"d","o","w","n">>,
    <<"d","u","r","i","n","g">>, <<"e","a","c","h">>, <<"f","e","w">>, <<"f","o","r">>,
    <<"f","r","o","m">>, <<"f","u","r","t","h","e","r">>, <<"h","a","d">>,
    <<"h","a","d","n","'","t">>, <<"h","a","s">>, <<"h","a","s","n","'","t">>,
    <<"h","a","v","e">>, <<"h","a","v","e","n","'","t">>, <<"h","a","v","i","n","g">>,
    <<"h","e">>, <<"h","e","'","d">>, <<"h","e","'","l","l">>, <<"h","e","'","s">>,
    <<"h","e","r">>, <<"h","e","r","e">>, <<"h","e","r","e","'","s">>,
    <<"h","e","r","s">>, <<"h","e","r","s","e","l","f">>, <<"h","i","m">>,
    <<"h","i","m","s","e","l","f">>, <<"h","i","s">>, <<"h","o","w">>,
    <<"h","o","w","'","s">>, <<"i">>, <<"i","'","d">>, <<"i","'","l","l">>,
    <<"i","'","m">>, <<"i","'","v","e">>, <<"i","f">>, <<"i","n">>, <<"i","n","t","o">>,
    <<"i","s">>, <<"i","s","n","'","t">>, <<"i","t">>, <<"i","t","'","s">>,
    <<"i","t","s">>, <<"i","t","s","e","l","f">>, <<"l","e","t","'","s">>, <<"m","e">>,
    <<"m","o","r","e">>, <<"m","o","s","t">>, <<"m","u","s","t","n","'","t">>,
    <<"m","y">>, <<"m","y","s","e","l","f">>, <<"n","o">>, <<"n","o","r">>,
    <<"n","o","t">>, <<"o","f">>, <<"o","f","f">>, <<"o","n">>, <<"o","n","c","e">>,
    <<"o","n","l","y">>, <<"o","r">>, <<"o","t","h","e","r">>, <<"o","u","g","h","t">>,
    <<"o","u","r">>, <<"o","u","r","s">>, <<"o","u","r","s","e","l","v","e","s">>,
    <<"o","u","t">>, <<"o","v","e","r">>, <<"o","w","n">>, <<"s","a","m","e">>,
    <<"s","h","a","n","'","t">>, <<"s","h","e">>, <<"s","h","e","'","d">>,
    <<"s","h","e","'","l","l">>, <<"s","h","e","'","s">>, <<"s","h","o","u","l","d">>,
    <<"s","h","o","u","l","d","n","'","t">>, <<"s","o">>, <<"s","o","m","e">>,
    <<"s","u","c","h">>, <<"t","h","a","n">>, <<"t","h","a","t">>,
    <<"t","h","a","t","'","s">>, <<"t","h","e">>, <<"t","h","e","i","r">>,
    <<"t","h","e","i","r","s">>, <<"t","h","e","m">>,
    <<"t","h","e","m","s","e","l","v","e","s">>, <<"t","h","e","n">>,
    <<"t","h","e","r","e">>, <<"t","h","e","r","e","'","s">>, <<"t","h","e","s","e">>,
    <<"t","h","e","y">>, <<"t","h","e","y","'","d">>, <<"t","h","e","y","'","l","l">>,
    <<"t","h","e","y","'","r","e">>, <<"t","h","e","y","'","v","e">>,
    <<"t","h","i","s">>, <<"t","h","o","s","e">>, <<"t","h","r","o","u","g","h">>,
    <<"t","o">>, <<"t","o","o">>, <<"u","n","d","e","r">>, <<"u","n","t","i","l">>,
    <<"u","p">>, <<"v","e","r","y">>, <<"w","a","s">>, <<"w","a","s","n","'","t">>,
    <<"w","e">>, <<"w","e","'","d">>, <<"w","e","'","l","l">>, <<"w","e","'","r","e">>,
    <<"w","e","'","v","e">>, <<"w","e","r","e">>, <<"w","e","r","e","n","'","t">>,
    <<"w","h","a","t">>, <<"w","h","a","t","'","s">>, <<"w","h","e","n">>,
    <<"w","h","e","n","'","s">>, <<"w","h","e","r","e">>,
    <<"w","h","e","r","e","'","s">>, <<"w","h","i","c","h">>, <<"w","h","i","l","e">>,
    <<"w","h","o">>, <<"w","h","o","'","s">>, <<"w","h","o","m">>, <<"w","h","y">>,
    <<"w","h","y","'","s">>, <<"w","i","t","h">>, <<"w","o","n","'","t">>,
    <<"w","o","u","l","d">>, <<"w","o","u","l","d","n","'","t">>, <<"y","o","u">>,
    <<"y","o","u","'","d">>, <<"y","o","u","'","l","l">>, <<"y","o","u","'","r","e">>,
    <<"y","o","u","'","v","e">>, <<"y","o","u","r">>, <<"y","o","u","r","s">>,
    <<"y","o","u","r","s","e","l","f">>, <<"y","o","u","r","s","e","l","v","e","s">> }

RECURSIVE stopwordFilter(_)
stopwordFilter(tokens) ==
  IF tokens = <<>> THEN <<>>
  ELSE LET rest == stopwordFilter(Tail(tokens))
       IN IF Head(tokens) \in StopWords THEN rest ELSE <<Head(tokens)>> \o rest

(***************************************************************************)
(* snowballeng.Stem(token, false), the English (Porter2) stemmer of the    *)
(* snowball library: words of at most two bytes are returned as they are;  *)
(* step 1a strips the plural suffixes and step 1b the suffixes ed and ing. *)
(* The later steps rewrite suffixes (ational, ness, ment, a final e, ...)  *)
(* that no word of the texts below carries.                                *)
(***************************************************************************)
Vowels == { "a", "e", "i", "o", "u", "y" }

Doubles == { "b", "d", "f", "g", "m", "n", "p", "r", "t" }

HasSuffix(w, suf) ==
  /\ Len(w) >= Len(suf)
  /\ SubSeq(w, Len(w) - Len(suf) + 1, Len(w)) = suf

DropLast(w, n) == SubSeq(w, 1, Len(w) - n)

ContainsVowel(w) == \E i \in 1..Len(w) : w[i] \in Vowels

\* the position after the first non-vowel that follows a vowel
R1Start(w) ==
  LET ps == { i \in 2..Len(w) : w[i] \notin Vowels /\ w[i-1] \in Vowels }
  IN IF ps = {} THEN Len(w) + 1
     ELSE (CHOOSE i \in ps : \A j \in ps : i <= j) + 1

EndsShortSyllable(w) ==
  LET n == Len(w)
  IN \/ /\ n >= 3
        /\ w[n] \notin Vowels \cup { "w", "x" }
        /\ w[n-1] \in Vowels
        /\ w[n-2] \notin Vowels
     \/ /\ n = 2
        /\ w[1] \in Vowels
        /\ w[2] \notin Vowels

IsShortWord(w) == EndsShortSyllable(w) /\ R1Start(w) > Len(w)

\* a faulty step 1a: a plain final s is kept
Step1aKeepsPlural(w) ==
  CASE HasSuffix(w, <<"s","s","e","s">>) -> DropLast(w, 2)
    [] HasSuffix(w, <<"i","e","d">>) \/ HasSuffix(w, <<"i","e","s">>) ->
         IF Len(w) > 4 THEN DropLast(w, 2) ELSE DropLast(w, 1)
    [] OTHER -> w

Step1a(w) ==
  CASE HasSuffix(w, <<"s","s","e","s">>) -> DropLast(w, 2)
    [] HasSuffix(w, <<"i","e","d">>) \/ HasSuffix(w, <<"i","e","s">>) ->
         IF Len(w) > 4 THEN DropLast(w, 2) ELSE DropLast(w, 1)
    [] HasSuffix(w, <<"u","s">>) \/ HasSuffix(w, <<"s","s">>) -> w
    [] HasSuffix(w, <<"s">>) ->
         IF ContainsVowel(DropLast(w, 2)) THEN DropLast(w, 1) ELSE w
    [] OTHER -> w

Step1bFix(w) ==
  CASE HasSuffix(w, <<"a","t">>) \/ HasSuffix(w, <<"b","l">>)
         \/ HasSuffix(w, <<"i","z">>) -> Append(w, "e")
    [] Len(w) >= 2 /\ w[Len(w)] = w[Len(w)-1] /\ w[Len(w)] \in Doubles ->
         DropLast(w, 1)
    [] IsShortWord(w) -> Append(w, "e")
    [] OTHER -> w

Step1b(w) ==
  CASE HasSuffix(w, <<"e","e","d">>) ->
         IF R1Start(w) <= Len(w) - 2 THEN DropLast(w, 1) ELSE w
    [] HasSuffix(w, <<"i","n","g">>) ->
         IF ContainsVowel(DropLast(w, 3)) THEN Step1bFix(DropLast(w, 3)) ELSE w
    [] HasSuffix(w, <<"e","d">>) ->
         IF ContainsVowel(DropLast(w, 2)) THEN Step1bFix(DropLast(w, 2)) ELSE w
    [] OTHER -> w

Stem(w) == IF StrLen(w) <= 2 THEN w ELSE Step1b(Step1a(w))

stemmerFilter(tokens) == [i \in 1..Len(tokens) |-> Stem(tokens[i])]

\* tokenize, lowercase, character trim, stopword removal, stemming
analyze(text) ==
  stemmerFilter(stopwordFilter(characterFilter(lowercaseFilter(tokenize(text)))))

(***************************************************************************)
(* Documents and queries of the model.                                     *)
(***************************************************************************)
TDonut == <<"d","o","n","u","t">>
TDonutsGlass == <<"D","o","n","u","t","s"," ","g","l","a","s","s">>
TDontE == <<"d","o","n","'","t"," ","é">>
TTheA == <<"T","h","e"," ","a">>

Texts == { TDonut, TDonutsGlass, TDontE, TTheA }

\* Document{ID, Text}: the documents the client may add
Docs ==
  { [ID |-> 1, Text |-> TDonut],
    [ID |-> 2, Text |-> TDonutsGlass],
    [ID |-> 3, Text |-> TDonutsGlass],
    [ID |-> 1, Text |-> TDontE],
    [ID |-> 3, Text |-> TTheA] }

QDonut == <<"d","o","n","u","t">>
QGlass == <<"g","l","a","s","s">>
QDonutGlass == <<"d","o","n","u","t"," ","g","l","a","s","s">>
QDont == <<"d","o","n","'","t">>
QE == <<"é">>
QThe == <<"t","h","e">>
QDonuts == <<"d","o","n","u","t","s">>
QEmpty == <<>>
\* a query that names one term twice
QDonutDonuts == <<"d","o","n","u","t"," ","d","o","n","u","t","s">>
QSpace == <<" ">>

\* words of the stemmer's test
WFish == <<"f","i","s","h">>
WFishing == <<"f","i","s","h","i","n","g">>
WFished == <<"f","i","s","h","e","d">>
WCat == <<"c","a","t">>
WCats == <<"c","a","t","s">>

\* groups of morphological variants of one word
StemVariants == { { QDonut, QDonuts }, { WFish, WFishing, WFished }, { WCat, WCats } }

Queries == { QDonut, QGlass, QDonutGlass, QDont, QE, QThe }

\* the queries of the tests' edge cases beside them
AllQueries == Queries \cup { QDonuts, QEmpty, QSpace, QDonutDonuts }

\* the analyzer is a pure function: its value on every text of the model
\* words that are no stopwords and lose a suffix in stemming
WOthers == <<"o","t","h","e","r","s">>
WOwned == <<"o","w","n","e","d">>

\* the input of TestStopwordFilter
TIAmTheCat == << <<"i">>, <<"a","m">>, <<"t","h","e">>, <<"c","a","t">> >>

Analyzed ==
  [t \in Texts \cup AllQueries \cup StopWords \cup UNION StemVariants \cup { WOthers, WOwned }
     |-> analyze(t)]

Batches == UNION { [1..n -> Docs] : n \in 0..MaxBatch }

(***************************************************************************)
(* Arithmetic on weights.  A float64 x is the integer nearest to           *)
(* x * Scale; products are rounded to the nearest unit.                    *)
(***************************************************************************)
Scale == 10000

\* math.Log(n) in Scale units, n = 1..9
LogTable == <<0, 6931, 10986, 13863, 16094, 17918, 19459, 20794, 21972>>

\* float64(freq) / float64(totalTokens)
TermFreq(freq, totalTokens) == (2 * freq * Scale + totalTokens) \div (2 * totalTokens)

\* a faulty IDF: the logarithm without the 1.0 added to it
IdfWithoutOne(docCount, df) == LogTable[docCount] - LogTable[df + 1]

\* math.Log(float64(docCount)/(float64(len(entry.DocIDs))+1.0)) + 1.0
Idf(docCount, df) == LogTable[docCount] - LogTable[df + 1] + Scale

\* entry.Freqs[i] *= idf
MulWeight(w, idf) == (2 * w * idf + Scale) \div (2 * Scale)

(***************************************************************************)
(* Index entries: IndexEntry{DocIDs, Freqs}, and the mapping from term to  *)
(* entry as a function whose domain is the set of terms present.           *)
(***************************************************************************)
EmptyEntry == [DocIDs |-> <<>>, Freqs |-> <<>>]

NoEntries == [t \in {} |-> EmptyEntry]

\* tokenFreq[token]++ over the tokens of one document
TokenFreq(tokens, token) == Cardinality({ i \in 1..Len(tokens) : tokens[i] = token })

TokenSet(tokens) == { tokens[i] : i \in 1..Len(tokens) }

\* fetch or create the entry of token, then append (doc.ID, tf) to it
AppendPosting(entries, token, docId, tf) ==
  LET entry == IF token \in DOMAIN entries THEN entries[token] ELSE EmptyEntry
      grown == [DocIDs |-> Append(entry.DocIDs, docId),
                Freqs |-> Append(entry.Freqs, tf)]
  IN [t \in DOMAIN entries \cup {token} |-> IF t = token THEN grown ELSE entries[t]]

RECURSIVE AppendTokens(_, _, _, _)
\* for token, freq := range tokenFreq: each token has its own entry, so the
\* order of the iteration does not show in the outcome
AppendTokens(entries, todo, doc, tokens) ==
  IF todo = {} THEN entries
  ELSE LET token == CHOOSE t \in todo : TRUE
       IN AppendTokens(
            AppendPosting(entries, token, doc.ID,
                          TermFreq(TokenFreq(tokens, token), Len(tokens))),
            todo \ {token}, doc, tokens)

\* a faulty loop body: a document without tokens is recorded under the
\* empty term
AddDocumentIndexesEmpty(entries, doc) ==
  LET tokens == Analyzed[doc.Text]
  IN IF Len(tokens) = 0 THEN AppendPosting(entries, <<>>, doc.ID, 0)
     ELSE AppendTokens(entries, TokenSet(tokens), doc, tokens)

\* the body of the loop over docs; a document without tokens is skipped
AddDocument(entries, doc) ==
  LET tokens == Analyzed[doc.Text]
  IN IF Len(tokens) = 0 THEN entries
     ELSE AppendTokens(entries, TokenSet(tokens), doc, tokens)

RECURSIVE AddDocuments(_, _)
AddDocuments(entries, docs) ==
  IF docs = <<>> THEN entries
  ELSE AddDocuments(AddDocument(entries, Head(docs)), Tail(docs))

\* the rescaling of one entry by its IDF
ScaleEntry(entry, docCount) ==
  LET idf == Idf(docCount, Len(entry.DocIDs))
  IN [entry EXCEPT !.Freqs = [i \in 1..Len(entry.Freqs) |-> MulWeight(entry.Freqs[i], idf)]]

calculateIDF(entries, docCount) ==
  [t \in DOMAIN entries |-> ScaleEntry(entries[t], docCount)]

\* ConcurrentIndex.calculateIDF: Range over the entries, each rescaled under
\* its lock with the docCount read at that time
concurrentCalculateIDF(entries, docCount) ==
  [t \in DOMAIN entries |-> ScaleEntry(entries[t], docCount)]

\* a faulty Add: no early return on an empty batch
IndexAddNoEarlyReturn(index, docs) ==
  LET n == index.docCount + Len(docs)
  IN [entries |-> calculateIDF(AddDocuments(index.entries, docs), n),
      docCount |-> n]

\* the document has terms after analysis
HasTerms(doc) == Len(Analyzed[doc.Text]) > 0

\* a faulty Add: docCount counts only the documents that have terms
IndexAddCountsIndexed(index, docs) ==
  IF Len(docs) = 0 THEN index
  ELSE LET n == index.docCount + Len(SelectSeq(docs, HasTerms))
       IN [entries |-> calculateIDF(AddDocuments(index.entries, docs), n),
           docCount |-> n]

\* Index.Add, on the index as a record [entries, docCount]
IndexAdd(index, docs) ==
  IF Len(docs) = 0 THEN index
  ELSE LET n == index.docCount + Len(docs)
       IN [entries |-> calculateIDF(AddDocuments(index.entries, docs), n),
           docCount |-> n]

\* a faulty Clear: the mapping emptied, the count kept
IndexClearKeepsCount(index) == [entries |-> NoEntries, docCount |-> index.docCount]

\* Index.Clear
IndexClear(index) == [entries |-> NoEntries, docCount |-> 0]

\* ConcurrentIndex.Clear: Range deletes every key, then docCount = 0
ConcurrentClear(index) ==
  [entries |-> NoEntries, docCount |-> 0]

\* Index.Stats
IndexStats(index) ==
  [DocumentCount |-> index.docCount, TermCount |-> Cardinality(DOMAIN index.entries)]

\* ConcurrentIndex.Stats: Range counts the keys
ConcurrentStats(index) ==
  [DocumentCount |-> index.docCount,
   TermCount |-> Cardinality({ t \in DOMAIN index.entries : TRUE })]

(***************************************************************************)
(* Search: score accumulation, then the sorted result list.                *)
(***************************************************************************)
\* a faulty accumulation: the loop over DocIDs left after its first round
AddEntryScoresFirstPosting(scores, entry, i) ==
  IF Len(entry.DocIDs) = 0 THEN scores
  ELSE LET d == entry.DocIDs[1]
           old == IF d \in DOMAIN scores THEN scores[d] ELSE 0
       IN [k \in DOMAIN scores \cup {d} |-> IF k = d THEN old + entry.Freqs[1] ELSE scores[k]]

RECURSIVE AddEntryScoresReplacing(_, _, _)
\* a faulty accumulation: scores[docID] = entry.Freqs[i], the last posting
\* replacing what the document had
AddEntryScoresReplacing(scores, entry, i) ==
  IF i > Len(entry.DocIDs) THEN scores
  ELSE LET d == entry.DocIDs[i]
       IN AddEntryScoresReplacing(
            [k \in DOMAIN scores \cup {d} |-> IF k = d THEN entry.Freqs[i] ELSE scores[k]],
            entry, i + 1)

RECURSIVE AddEntryScores(_, _, _)
\* for i, docID := range entry.DocIDs { scores[docID] += entry.Freqs[i] }
AddEntryScores(scores, entry, i) ==
  IF i > Len(entry.DocIDs) THEN scores
  ELSE LET d == entry.DocIDs[i]
           old == IF d \in DOMAIN scores THEN scores[d] ELSE 0
       IN AddEntryScores(
            [k \in DOMAIN scores \cup {d} |-> IF k = d THEN old + entry.Freqs[i] ELSE scores[k]],
            entry, i + 1)

RECURSIVE AccumulateScoresAllTerms(_, _, _)
\* a faulty accumulation: a query term without an entry voids the scores
AccumulateScoresAllTerms(scores, entries, tokens) ==
  IF tokens = <<>> THEN scores
  ELSE IF Head(tokens) \notin DOMAIN entries THEN [d \in {} |-> 0]
  ELSE AccumulateScoresAllTerms(AddEntryScores(scores, entries[Head(tokens)], 1),
                                entries, Tail(tokens))

RECURSIVE AccumulateScores(_, _, _)
AccumulateScores(scores, entries, tokens) ==
  IF tokens = <<>> THEN scores
  ELSE AccumulateScores(
         IF Head(tokens) \in DOMAIN entries
           THEN AddEntryScores(scores, entries[Head(tokens)], 1)
           ELSE scores,
         entries, Tail(tokens))

NoScores == [d \in {} |-> 0]

\* a faulty comparison: ascending scores
LessAscending(a, b) == a.Score < b.Score

\* the comparison handed to sort.Slice
Less(a, b) == a.Score > b.Score

RECURSIVE InsertBack(_, _)
\* the inner loop of the insertion sort: for j > a && less(j, j-1) { swap }
InsertBack(s, j) ==
  IF j > 1 /\ Less(s[j], s[j-1])
    THEN InsertBack([s EXCEPT ![j] = s[j-1], ![j-1] = s[j]], j - 1)
    ELSE s

RECURSIVE InsertionSort(_, _)
\* sort.Slice on fewer than 12 elements is an insertion sort
InsertionSort(s, i) ==
  IF i > Len(s) THEN s ELSE InsertionSort(InsertBack(s, i), i + 1)

SortSlice(s) == InsertionSort(s, 2)

\* the orders in which a range over the map scores may visit its keys
MapOrders(keys) ==
  { o \in [1..Cardinality(keys) -> keys] : \A i, j \in DOMAIN o : i # j => o[i] # o[j] }

\* Search after analyze: nil without tokens or without scores; otherwise the
\* scores map is ranged over into a slice, which is sorted.  Go leaves the
\* order of a range over a map unspecified, so every order of the keys is a
\* possible input of the sort.
SearchTokens(entries, tokens) ==
  LET scores == AccumulateScores(NoScores, entries, tokens)
  IN IF Len(tokens) = 0 \/ DOMAIN scores = {} THEN { <<>> }
     ELSE { SortSlice([i \in DOMAIN o |-> [DocID |-> o[i], Score |-> scores[o[i]]]]) :
              o \in MapOrders(DOMAIN scores) }

\* the result lists Search(text) may return
SearchResults(entries, text) == SearchTokens(entries, Analyzed[text])

(***************************************************************************)
(* State.                                                                  *)
(***************************************************************************)
VARIABLES
  idx,        \* the Index: [entries, docCount]
  cidx,       \* the ConcurrentIndex: [entries, docCount]
  addPc,      \* the ConcurrentIndex.Add call in flight: "idle", "send", "wait"
  toSend,     \* documents of the batch not yet sent on docChan
  docChan,    \* the buffered channel of documents
  closed,     \* docChan has been closed
  workers,    \* the bag of running worker goroutines, each [pc, doc, todo]
  query,      \* the text of the last Search, NoQuery after a change of an index
  seqResult,  \* what Index.Search returned for query
  parResult,  \* what ConcurrentIndex.Search returned for query
  corpus,     \* the documents added since the last Clear, in order
  lastOp,     \* the last call made by the client: [op, n]
  pidx,       \* the ConcurrentIndex with the RWMutex of every entry
  calls,      \* the bag of ConcurrentIndex.Add calls in flight on pidx
  reader      \* the ConcurrentIndex.Search call in flight on pidx

vars == <<idx, cidx, addPc, toSend, docChan, closed, workers, query,
          seqResult, parResult, corpus, lastOp>>

\* the state of the steps that take and release the entry locks one by one
lockVars == <<pidx, calls, reader>>

NoQuery == <<"?">>

NoDoc == [ID |-> 0, Text |-> <<>>]

\* docChan := make(chan *Document, numWorkers*2)
ChanCap == NumWorkers * 2

EmptyIndex == [entries |-> NoEntries, docCount |-> 0]

\* a worker goroutine at the head of its loop over docChan; the goroutines
\* are anonymous, so the pool is a bag of their local states, and wg counts
\* the goroutines in it
ReceivingWorker == [pc |-> "recv", doc |-> NoDoc, todo |-> {}]

\* one goroutine leaves local state old for local state new
Moved(old, new) == (workers (-) SetToBag({old})) (+) SetToBag({new})

\* no term: a worker, an IDF pass or a Search that holds no entry lock
NoTerm == <<>>

\* &ConcurrentIndexEntry{...}: the entry LoadOrStore stores for a new term,
\* its RWMutex free (w: held exclusively, r: the holders of the shared
\* lock).  Owners records, for every weight of Freqs, the document it was
\* computed for.
NewEntry ==
  [RWMutex |-> [w |-> FALSE, r |-> 0], DocIDs |-> <<>>, Freqs |-> <<>>, Owners |-> <<>>]

\* the name of the index's own lock (the RWMutex embedded in ConcurrentIndex)
\* among the locks a goroutine holds; the lock of an entry goes by its term
IndexLock == <<"index">>

\* no Search in flight; locks is the sequence of the locks the goroutine
\* holds, in the order it took them
IdleReader ==
  [pc |-> "idle", tokens |-> <<>>, held |-> NoTerm, scores |-> NoScores,
   locks |-> <<>>, docCount |-> 0]

LockInit ==
  /\ pidx = [RWMutex |-> [w |-> FALSE, r |-> 0],
             entries |-> [t \in {} |-> NewEntry], docCount |-> 0]
  /\ calls = EmptyBag
  /\ reader = IdleReader

Init ==
  /\ idx = EmptyIndex
  /\ cidx = EmptyIndex
  /\ addPc = "idle"
  /\ toSend = <<>>
  /\ docChan = <<>>
  /\ closed = FALSE
  /\ workers = EmptyBag
  /\ query = NoQuery
  /\ seqResult = <<>>
  /\ parResult = <<>>
  /\ corpus = <<>>
  /\ lastOp = [op |-> "New", n |-> 0]
  /\ LockInit

ForgetResults ==
  /\ query' = NoQuery
  /\ seqResult' = <<>>
  /\ parResult' = <<>>

(***************************************************************************)
(* The client calls Add on both engines with the same batch.  Index.Add    *)
(* runs to its end; ConcurrentIndex.Add counts the documents under the     *)
(* index lock, starts its workers and goes on in the steps below.          *)
(***************************************************************************)
ConcurrentAddBegin(docs) ==
  IF Len(docs) = 0
    THEN UNCHANGED <<cidx, addPc, toSend, docChan, closed, workers>>
    ELSE /\ cidx' = [cidx EXCEPT !.docCount = @ + Len(docs)]
         /\ addPc' = "send"
         /\ toSend' = docs
         /\ docChan' = <<>>
         /\ closed' = FALSE
         /\ workers' = [s \in {ReceivingWorker} |-> NumWorkers]

Add(docs) ==
  /\ addPc = "idle"
  /\ idx.docCount + Len(docs) <= MaxDocs
  /\ idx' = IndexAdd(idx, docs)
  /\ ConcurrentAddBegin(docs)
  /\ corpus' = corpus \o docs
  /\ lastOp' = [op |-> "Add", n |-> Len(docs)]
  /\ ForgetResults
  /\ UNCHANGED lockVars

\* for _, doc := range docs { docChan <- doc }
MainSend ==
  /\ addPc = "send"
  /\ toSend # <<>>
  /\ Len(docChan) < ChanCap
  /\ docChan' = Append(docChan, Head(toSend))
  /\ toSend' = Tail(toSend)
  /\ UNCHANGED <<idx, cidx, addPc, closed, workers, query, seqResult, parResult,
                 corpus, lastOp>>
  /\ UNCHANGED lockVars

\* close(docChan), then wg.Wait()
MainClose ==
  /\ addPc = "send"
  /\ toSend = <<>>
  /\ closed' = TRUE
  /\ addPc' = "wait"
  /\ UNCHANGED <<idx, cidx, toSend, docChan, workers, query, seqResult, parResult,
                 corpus, lastOp>>
  /\ UNCHANGED lockVars

\* for doc := range docChan: receive, analyze, count the tokens
WorkerRecv(w) ==
  /\ w.pc = "recv"
  /\ docChan # <<>>
  /\ LET doc == Head(docChan)
         tokens == Analyzed[doc.Text]
     IN workers' = IF Len(tokens) = 0 THEN workers
                   ELSE Moved(w, [pc |-> "append", doc |-> doc, todo |-> TokenSet(tokens)])
  /\ docChan' = Tail(docChan)
  /\ UNCHANGED <<idx, cidx, addPc, toSend, closed, query, seqResult, parResult,
                 corpus, lastOp>>
  /\ UNCHANGED lockVars

\* LoadOrStore, then the append under the entry's lock, for one token of
\* tokenFreq; the range over the map takes the tokens in any order
WorkerAppend(w) ==
  /\ w.pc = "append"
  /\ \E token \in w.todo :
       LET tokens == Analyzed[w.doc.Text]
           tf == TermFreq(TokenFreq(tokens, token), Len(tokens))
           left == w.todo \ {token}
       IN /\ cidx' = [cidx EXCEPT !.entries = AppendPosting(@, token, w.doc.ID, tf)]
          /\ workers' = Moved(w, IF left = {} THEN ReceivingWorker
                                 ELSE [w EXCEPT !.todo = left])
  /\ ForgetResults
  /\ UNCHANGED <<idx, addPc, toSend, docChan, closed, corpus, lastOp>>
  /\ UNCHANGED lockVars

\* the range over the closed and drained channel ends; defer wg.Done()
WorkerExit(w) ==
  /\ w.pc = "recv"
  /\ docChan = <<>>
  /\ closed
  /\ workers' = workers (-) SetToBag({w})
  /\ UNCHANGED <<idx, cidx, addPc, toSend, docChan, closed, query, seqResult,
                 parResult, corpus, lastOp>>
  /\ UNCHANGED lockVars

\* a faulty Add: calculateIDF and the return without wg.Wait()
AddReturnNoWait ==
  /\ addPc = "wait"
  /\ cidx' = [cidx EXCEPT !.entries = concurrentCalculateIDF(@, cidx.docCount)]
  /\ addPc' = "idle"
  /\ ForgetResults
  /\ UNCHANGED <<idx, toSend, docChan, closed, workers, corpus, lastOp>>
  /\ UNCHANGED lockVars

\* wg.Wait() returns, idx.calculateIDF(), Add returns
AddReturn ==
  /\ addPc = "wait"
  /\ workers = EmptyBag
  /\ cidx' = [cidx EXCEPT !.entries = concurrentCalculateIDF(@, cidx.docCount)]
  /\ addPc' = "idle"
  /\ ForgetResults
  /\ UNCHANGED <<idx, toSend, docChan, closed, workers, corpus, lastOp>>
  /\ UNCHANGED lockVars

\* Index.Clear and ConcurrentIndex.Clear, with no call in flight
Clear ==
  /\ addPc = "idle"
  /\ idx' = IndexClear(idx)
  /\ cidx' = ConcurrentClear(cidx)
  /\ corpus' = <<>>
  /\ lastOp' = [op |-> "Clear", n |-> idx.docCount]
  /\ ForgetResults
  /\ UNCHANGED <<addPc, toSend, docChan, closed, workers>>
  /\ UNCHANGED lockVars

\* a faulty Stats: the Range of ConcurrentIndex.Stats deletes the keys it
\* counts
StatsDeletingKeys ==
  /\ addPc = "idle"
  /\ lastOp' = [op |-> "Stats", n |-> 0,
                seq |-> IndexStats(idx), par |-> ConcurrentStats(cidx)]
  /\ cidx' = [cidx EXCEPT !.entries = NoEntries]
  /\ UNCHANGED <<idx, addPc, toSend, docChan, closed, workers, query,
                 seqResult, parResult, corpus>>
  /\ UNCHANGED lockVars

\* Index.Stats and ConcurrentIndex.Stats, between the client's other calls:
\* the client gets the two IndexStats values
Stats ==
  /\ addPc = "idle"
  /\ lastOp' = [op |-> "Stats", n |-> 0,
                seq |-> IndexStats(idx), par |-> ConcurrentStats(cidx)]
  /\ UNCHANGED <<idx, cidx, addPc, toSend, docChan, closed, workers, query,
                 seqResult, parResult, corpus>>
  /\ UNCHANGED lockVars

\* a faulty Search: the parallel engine fetches the entry of a query term
\* with LoadOrStore, which stores an empty entry for a term not yet present
SearchStoringEntries(text) ==
  /\ addPc = "idle"
  /\ query' = text
  /\ seqResult' \in SearchResults(idx.entries, text)
  /\ parResult' \in SearchResults(cidx.entries, text)
  /\ cidx' = [cidx EXCEPT !.entries =
                [t \in DOMAIN @ \cup TokenSet(Analyzed[text]) |->
                   IF t \in DOMAIN @ THEN @[t] ELSE EmptyEntry]]
  /\ lastOp' = [op |-> "Search", n |-> 0]
  /\ UNCHANGED <<idx, addPc, toSend, docChan, closed, workers, corpus>>
  /\ UNCHANGED lockVars

\* Index.Search and ConcurrentIndex.Search of the same text, between the
\* client's other calls
Search(text) ==
  /\ addPc = "idle"
  /\ query' = text
  /\ seqResult' \in SearchResults(idx.entries, text)
  /\ parResult' \in SearchResults(cidx.entries, text)
  /\ lastOp' = [op |-> "Search", n |-> 0]
  /\ UNCHANGED <<idx, cidx, addPc, toSend, docChan, closed, workers, corpus>>
  /\ UNCHANGED lockVars

Next ==
  \/ \E docs \in Batches : Add(docs)
  \/ MainSend
  \/ MainClose
  \/ \E w \in BagToSet(workers) : WorkerRecv(w)
  \/ \E w \in BagToSet(workers) : WorkerAppend(w)
  \/ \E w \in BagToSet(workers) : WorkerExit(w)
  \/ AddReturn
  \/ Clear
  \/ Stats
  \/ \E text \in AllQueries : Search(text)

Spec == Init /\ [][Next]_vars

(***************************************************************************)
(* ConcurrentIndex step by step: every Lock, Unlock, RLock and RUnlock of  *)
(* an entry is a step of its own, several Add calls run at once, and a     *)
(* Search runs beside them.  Index.Add runs in one step, as before.        *)
(***************************************************************************)
\* concurrent ConcurrentIndex.Add calls
MaxCallers == 2

\* documents the step-by-step index may hold before its callers stop adding
LockMaxDocs == 2

LockDocs == { [ID |-> 1, Text |-> TDonut], [ID |-> 2, Text |-> TDonutsGlass] }

LockBatches == UNION { [1..n -> LockDocs] : n \in 1..MaxBatch }

\* a batch of one document more than docChan buffers: the sender has to
\* wait for a worker to receive
LongBatch == [i \in 1..(NumWorkers * 2 + 1) |-> [ID |-> 1, Text |-> TDonut]]

LockQueries == { QDonutGlass }

\* the variables of the lockstep model above, which the steps below leave alone
coarseVars == <<cidx, addPc, toSend, docChan, closed, workers, query,
                seqResult, parResult, corpus, lastOp>>

\* a worker goroutine of an Add call at the head of its loop over docChan
LockReceiving == [pc |-> "recv", doc |-> NoDoc, todo |-> {}, token |-> NoTerm]

\* an Add call inside idx.Lock(), before it has counted its batch; locks is
\* the sequence of the locks the calling goroutine holds
NewCall(docs) ==
  [pc |-> "count", toSend |-> docs, docChan |-> <<>>, closed |-> FALSE,
   workers |-> EmptyBag, started |-> {}, visited |-> {}, held |-> NoTerm,
   locks |-> <<IndexLock>>]

\* call c goes on as call d
Proceed(c, d) == calls' = (calls (-) SetToBag({c})) (+) SetToBag({d})

\* call c with its worker w gone on as worker v
WithWorker(c, w, v) ==
  [c EXCEPT !.workers = (@ (-) SetToBag({w})) (+) SetToBag({v})]

\* a faulty fetch-or-create: a new entry is stored whether or not the term
\* has one
StoreAlways(term) == NewEntry

\* the entry of term, or the entry LoadOrStore stores for it
LoadOrStore(term) ==
  IF term \in DOMAIN pidx.entries THEN pidx.entries[term] ELSE NewEntry

\* pidx with the entry of term set to entry
StoreEntry(term, entry) ==
  [pidx EXCEPT !.entries =
     [t \in DOMAIN @ \cup {term} |-> IF t = term THEN entry ELSE @[t]]]

\* the documents of the Add calls that have not counted their batch yet
RECURSIVE Uncounted(_)
Uncounted(cs) ==
  IF cs = {} THEN 0
  ELSE LET c == CHOOSE c \in cs : TRUE
       IN (IF c.pc = "count" THEN calls[c] * Len(c.toSend) ELSE 0)
          + Uncounted(cs \ {c})

\* Add: idx.Lock(), which waits until nobody holds the index lock.  (An
\* empty batch returns before this.)
LockAdd(docs) ==
  /\ BagCardinality(calls) < MaxCallers
  /\ IF docs = LongBatch
       THEN calls = EmptyBag /\ pidx.docCount = 0
       ELSE pidx.docCount + Uncounted(DOMAIN calls) + Len(docs) <= LockMaxDocs
  /\ ~pidx.RWMutex.w
  /\ pidx.RWMutex.r = 0
  /\ pidx' = [pidx EXCEPT !.RWMutex.w = TRUE]
  /\ calls' = calls (+) SetToBag({NewCall(docs)})
  /\ idx' = IndexAdd(idx, docs)
  /\ UNCHANGED <<reader, coarseVars>>

\* idx.docCount += len(docs), idx.Unlock(), docChan made, the workers started
CountUnlock(c) ==
  /\ c.pc = "count"
  /\ pidx' = [pidx EXCEPT !.docCount = @ + Len(c.toSend), !.RWMutex.w = FALSE]
  /\ Proceed(c, [c EXCEPT !.pc = "send", !.locks = <<>>,
                          !.workers = [s \in {LockReceiving} |-> NumWorkers]])
  /\ UNCHANGED <<idx, reader, coarseVars>>

\* docChan <- doc
LockSend(c) ==
  /\ c.pc = "send"
  /\ c.toSend # <<>>
  /\ Len(c.docChan) < ChanCap
  /\ Proceed(c, [c EXCEPT !.docChan = Append(@, Head(c.toSend)), !.toSend = Tail(@)])
  /\ UNCHANGED <<idx, pidx, reader, coarseVars>>

\* a faulty Add: wg.Wait() without close(docChan)
LockCloseForgotten(c) ==
  /\ c.pc = "send"
  /\ c.toSend = <<>>
  /\ Proceed(c, [c EXCEPT !.pc = "wait"])
  /\ UNCHANGED <<idx, pidx, reader, coarseVars>>

\* close(docChan), then wg.Wait()
LockClose(c) ==
  /\ c.pc = "send"
  /\ c.toSend = <<>>
  /\ Proceed(c, [c EXCEPT !.closed = TRUE, !.pc = "wait"])
  /\ UNCHANGED <<idx, pidx, reader, coarseVars>>

\* for doc := range docChan: receive, analyze, count the tokens
LockRecv(c, w) ==
  /\ w.pc = "recv"
  /\ c.docChan # <<>>
  /\ LET doc == Head(c.docChan)
         tokens == Analyzed[doc.Text]
         v == IF Len(tokens) = 0 THEN w
              ELSE [pc |-> "append", doc |-> doc, todo |-> TokenSet(tokens),
                    token |-> NoTerm]
     IN Proceed(c, [WithWorker(c, w, v) EXCEPT !.docChan = Tail(@)])
  /\ UNCHANGED <<idx, pidx, reader, coarseVars>>

\* a faulty worker: the append to DocIDs without indexEntry.Lock()
WorkerAppendIdUnlocked(c, w) ==
  /\ w.pc = "append"
  /\ \E token \in w.todo :
       /\ pidx' = StoreEntry(token, [LoadOrStore(token) EXCEPT
                                       !.DocIDs = Append(@, w.doc.ID)])
       /\ Proceed(c, WithWorker(c, w, [w EXCEPT !.pc = "locked", !.token = token]))
  /\ UNCHANGED <<idx, reader, coarseVars>>

\* a faulty worker: idx.Lock() taken for the append, not the entry's lock
WorkerLockWholeIndex(c, w) ==
  /\ w.pc = "append"
  /\ ~pidx.RWMutex.w
  /\ pidx.RWMutex.r = 0
  /\ \E token \in w.todo :
       /\ pidx' = [StoreEntry(token, [LoadOrStore(token) EXCEPT
                                        !.DocIDs = Append(@, w.doc.ID)])
                     EXCEPT !.RWMutex.w = TRUE]
       /\ Proceed(c, WithWorker(c, w, [w EXCEPT !.pc = "locked", !.token = token]))
  /\ UNCHANGED <<idx, reader, coarseVars>>

\* LoadOrStore, indexEntry.Lock(), append to DocIDs, for one token of
\* tokenFreq; Lock waits until nobody holds the entry's lock
WorkerLock(c, w) ==
  /\ w.pc = "append"
  /\ \E token \in w.todo :
       LET entry == LoadOrStore(token)
       IN /\ ~entry.RWMutex.w
          /\ entry.RWMutex.r = 0
          /\ pidx' = StoreEntry(token, [entry EXCEPT !.RWMutex.w = TRUE,
                                                     !.DocIDs = Append(@, w.doc.ID)])
          /\ Proceed(c, WithWorker(c, w, [w EXCEPT !.pc = "locked", !.token = token]))
  /\ UNCHANGED <<idx, reader, coarseVars>>

\* append to Freqs, indexEntry.Unlock()
WorkerUnlock(c, w) ==
  /\ w.pc = "locked"
  /\ LET tokens == Analyzed[w.doc.Text]
         tf == TermFreq(TokenFreq(tokens, w.token), Len(tokens))
         left == w.todo \ {w.token}
         v == IF left = {} THEN LockReceiving
              ELSE [w EXCEPT !.pc = "append", !.todo = left, !.token = NoTerm]
     IN /\ pidx' = StoreEntry(w.token, [pidx.entries[w.token] EXCEPT
                                          !.Freqs = Append(@, tf),
                                          !.Owners = Append(@, w.doc.ID),
                                          !.RWMutex.w = FALSE])
        /\ Proceed(c, WithWorker(c, w, v))
  /\ UNCHANGED <<idx, reader, coarseVars>>

\* the range over the closed and drained channel ends; defer wg.Done()
LockExit(c, w) ==
  /\ w.pc = "recv"
  /\ c.docChan = <<>>
  /\ c.closed
  /\ Proceed(c, [c EXCEPT !.workers = @ (-) SetToBag({w})])
  /\ UNCHANGED <<idx, pidx, reader, coarseVars>>

\* wg.Wait() returns and calculateIDF starts its Range over the entries: the
\* keys present now will be visited; a key stored during the Range by
\* another Add call may be visited or not
IdfBegin(c) ==
  /\ c.pc = "wait"
  /\ c.workers = EmptyBag
  /\ Proceed(c, [c EXCEPT !.pc = "idf", !.started = DOMAIN pidx.entries])
  /\ UNCHANGED <<idx, pidx, reader, coarseVars>>

\* the Range reaches an entry: entry.Lock()
IdfLock(c) ==
  /\ c.pc = "idf"
  /\ c.held = NoTerm
  /\ \E term \in DOMAIN pidx.entries \ c.visited :
       /\ ~pidx.entries[term].RWMutex.w
       /\ pidx.entries[term].RWMutex.r = 0
       /\ pidx' = [pidx EXCEPT !.entries[term].RWMutex.w = TRUE]
       /\ Proceed(c, [c EXCEPT !.held = term, !.locks = Append(@, term)])
  /\ UNCHANGED <<idx, reader, coarseVars>>

\* idf from docCount and the entry's length, Freqs[i] *= idf, and the
\* deferred entry.Unlock()
IdfUnlock(c) ==
  /\ c.pc = "idf"
  /\ c.held # NoTerm
  /\ pidx' = [pidx EXCEPT !.entries[c.held] =
                [ScaleEntry(@, pidx.docCount) EXCEPT !.RWMutex.w = FALSE]]
  /\ Proceed(c, [c EXCEPT !.visited = @ \cup {c.held}, !.held = NoTerm,
                          !.locks = <<>>])
  /\ UNCHANGED <<idx, reader, coarseVars>>

\* the Range is over, Add returns
IdfEnd(c) ==
  /\ c.pc = "idf"
  /\ c.held = NoTerm
  /\ c.started \subseteq c.visited
  /\ calls' = calls (-) SetToBag({c})
  /\ UNCHANGED <<idx, pidx, reader, coarseVars>>

\* Search: analyze, no scores yet
SearchBegin(text) ==
  /\ reader.pc = "idle"
  /\ Len(Analyzed[text]) > 0
  /\ reader' = [IdleReader EXCEPT !.pc = "scan", !.tokens = Analyzed[text]]
  /\ UNCHANGED <<idx, pidx, calls, coarseVars>>

\* idx.entries.Load(token) finds no entry
ReadSkip ==
  /\ reader.pc = "scan"
  /\ reader.held = NoTerm
  /\ reader.tokens # <<>>
  /\ Head(reader.tokens) \notin DOMAIN pidx.entries
  /\ reader' = [reader EXCEPT !.tokens = Tail(@)]
  /\ UNCHANGED <<idx, pidx, calls, coarseVars>>

\* a faulty Search: idx.RLock() taken first, indexEntry.RLock() inside it
ReadLockAfterIndexLock ==
  /\ reader.pc = "scan"
  /\ reader.held = NoTerm
  /\ reader.tokens # <<>>
  /\ Head(reader.tokens) \in DOMAIN pidx.entries
  /\ ~pidx.RWMutex.w
  /\ ~pidx.entries[Head(reader.tokens)].RWMutex.w
  /\ pidx' = [pidx EXCEPT !.RWMutex.r = @ + 1,
                          !.entries[Head(reader.tokens)].RWMutex.r = @ + 1]
  /\ reader' = [reader EXCEPT !.pc = "count", !.held = Head(reader.tokens),
                              !.locks = <<IndexLock, Head(reader.tokens)>>]
  /\ UNCHANGED <<idx, calls, coarseVars>>

\* a faulty Search: the entry is read without indexEntry.RLock()
ReadLockNoWait ==
  /\ reader.pc = "scan"
  /\ reader.held = NoTerm
  /\ reader.tokens # <<>>
  /\ Head(reader.tokens) \in DOMAIN pidx.entries
  /\ pidx' = [pidx EXCEPT !.entries[Head(reader.tokens)].RWMutex.r = @ + 1]
  /\ reader' = [reader EXCEPT !.held = Head(reader.tokens),
                              !.locks = Append(@, Head(reader.tokens))]
  /\ UNCHANGED <<idx, calls, coarseVars>>

\* Load finds the entry: indexEntry.RLock(), which waits while a writer
\* holds the lock
ReadLock ==
  /\ reader.pc = "scan"
  /\ reader.held = NoTerm
  /\ reader.tokens # <<>>
  /\ Head(reader.tokens) \in DOMAIN pidx.entries
  /\ ~pidx.entries[Head(reader.tokens)].RWMutex.w
  /\ pidx' = [pidx EXCEPT !.entries[Head(reader.tokens)].RWMutex.r = @ + 1]
  /\ reader' = [reader EXCEPT !.held = Head(reader.tokens),
                              !.locks = Append(@, Head(reader.tokens))]
  /\ UNCHANGED <<idx, calls, coarseVars>>

\* the loop over DocIDs that adds Freqs[i] to the scores, (a loop that runs
\* off the end of a shorter Freqs panics and adds nothing), and
\* indexEntry.RUnlock()
ReadUnlock ==
  /\ reader.pc = "scan"
  /\ reader.held # NoTerm
  /\ LET entry == pidx.entries[reader.held]
     IN reader' = [reader EXCEPT
                     !.scores = IF Len(entry.DocIDs) = Len(entry.Freqs)
                                  THEN AddEntryScores(@, entry, 1) ELSE @,
                     !.tokens = Tail(@), !.held = NoTerm, !.locks = <<>>]
  /\ pidx' = [pidx EXCEPT !.entries[reader.held].RWMutex.r = @ - 1]
  /\ UNCHANGED <<idx, calls, coarseVars>>

\* every token done: the results are built from the scores and returned
SearchReturn ==
  /\ reader.pc = "scan"
  /\ reader.held = NoTerm
  /\ reader.tokens = <<>>
  /\ reader' = IdleReader
  /\ UNCHANGED <<idx, pidx, calls, coarseVars>>

LockNext ==
  \/ \E docs \in LockBatches \cup {LongBatch} : LockAdd(docs)
  \/ \E c \in BagToSet(calls) : CountUnlock(c)
  \/ \E c \in BagToSet(calls) : LockSend(c)
  \/ \E c \in BagToSet(calls) : LockClose(c)
  \/ \E c \in BagToSet(calls) : \E w \in BagToSet(c.workers) : LockRecv(c, w)
  \/ \E c \in BagToSet(calls) : \E w \in BagToSet(c.workers) : WorkerLock(c, w)
  \/ \E c \in BagToSet(calls) : \E w \in BagToSet(c.workers) : WorkerUnlock(c, w)
  \/ \E c \in BagToSet(calls) : \E w \in BagToSet(c.workers) : LockExit(c, w)
  \/ \E c \in BagToSet(calls) : IdfBegin(c)
  \/ \E c \in BagToSet(calls) : IdfLock(c)
  \/ \E c \in BagToSet(calls) : IdfUnlock(c)
  \/ \E c \in BagToSet(calls) : IdfEnd(c)
  \/ \E text \in LockQueries : SearchBegin(text)
  \/ ReadSkip
  \/ ReadLock
  \/ ReadUnlock
  \/ SearchReturn

LockSpec == Init /\ [][LockNext]_<<vars, lockVars>>

\* a step of a goroutine of an Add call in flight
AddProgress ==
  \E c \in BagToSet(calls) :
    \/ CountUnlock(c)
    \/ LockSend(c)
    \/ LockClose(c)
    \/ \E w \in BagToSet(c.workers) :
         LockRecv(c, w) \/ WorkerLock(c, w) \/ WorkerUnlock(c, w) \/ LockExit(c, w)
    \/ IdfBegin(c)
    \/ IdfLock(c)
    \/ IdfUnlock(c)
    \/ IdfEnd(c)

\* a step of the goroutine of the Search in flight
SearchProgress == ReadSkip \/ ReadLock \/ ReadUnlock \/ SearchReturn

\* The Go scheduler runs every runnable goroutine, and a goroutine waiting
\* in Lock or RLock gets the lock: a waiting Lock keeps new readers out,
\* and Unlock hands the lock to the readers that wait.  Callers need not
\* call Add or Search at all.
FairLockSpec ==
  /\ LockSpec
  /\ SF_<<vars, lockVars>>(AddProgress)
  /\ SF_<<vars, lockVars>>(SearchProgress)

(***************************************************************************)
(* The query-time IDF variant of ConcurrentIndex: Add stores the term      *)
(* frequencies and returns after wg.Wait(); Search reads docCount under    *)
(* the index lock, inside the entry's shared lock, and scales as it adds.  *)
(* The steps of Add up to wg.Wait() and the entry lookup of Search are     *)
(* those of the variant above.                                             *)
(***************************************************************************)
\* wg.Wait() returns and Add returns: calculateIDF is not called
LazyReturn(c) ==
  /\ c.pc = "wait"
  /\ c.workers = EmptyBag
  /\ calls' = calls (-) SetToBag({c})
  /\ UNCHANGED <<idx, pidx, reader, coarseVars>>

\* idx.RLock() inside the entry's shared lock; RLock waits while an Add
\* holds the index lock
CountRLock ==
  /\ reader.pc = "scan"
  /\ reader.held # NoTerm
  /\ ~pidx.RWMutex.w
  /\ pidx' = [pidx EXCEPT !.RWMutex.r = @ + 1]
  /\ reader' = [reader EXCEPT !.pc = "count", !.locks = Append(@, IndexLock)]
  /\ UNCHANGED <<idx, calls, coarseVars>>

\* docCount := idx.docCount, idx.RUnlock()
CountRUnlock ==
  /\ reader.pc = "count"
  /\ pidx' = [pidx EXCEPT !.RWMutex.r = @ - 1]
  /\ reader' = [reader EXCEPT !.pc = "score", !.docCount = pidx.docCount,
                              !.locks = SelectSeq(@, LAMBDA l : l # IndexLock)]
  /\ UNCHANGED <<idx, calls, coarseVars>>

\* idf from the docCount read and the entry's length, the loop that adds
\* Freqs[i] * idf to the scores, and indexEntry.RUnlock()
LazyReadUnlock ==
  /\ reader.pc = "score"
  /\ LET entry == pidx.entries[reader.held]
     IN reader' = [reader EXCEPT
                     !.pc = "scan",
                     !.scores = IF Len(entry.DocIDs) = Len(entry.Freqs)
                                  THEN AddEntryScores(@, ScaleEntry(entry, reader.docCount), 1)
                                  ELSE @,
                     !.tokens = Tail(@), !.held = NoTerm, !.locks = <<>>]
  /\ pidx' = [pidx EXCEPT !.entries[reader.held].RWMutex.r = @ - 1]
  /\ UNCHANGED <<idx, calls, coarseVars>>

LazyNext ==
  \/ \E docs \in LockBatches \cup {LongBatch} : LockAdd(docs)
  \/ \E c \in BagToSet(calls) : CountUnlock(c)
  \/ \E c \in BagToSet(calls) : LockSend(c)
  \/ \E c \in BagToSet(calls) : LockClose(c)
  \/ \E c \in BagToSet(calls) : \E w \in BagToSet(c.workers) : LockRecv(c, w)
  \/ \E c \in BagToSet(calls) : \E w \in BagToSet(c.workers) : WorkerLock(c, w)
  \/ \E c \in BagToSet(calls) : \E w \in BagToSet(c.workers) : WorkerUnlock(c, w)
  \/ \E c \in BagToSet(calls) : \E w \in BagToSet(c.workers) : LockExit(c, w)
  \/ \E c \in BagToSet(calls) : LazyReturn(c)
  \/ \E text \in LockQueries : SearchBegin(text)
  \/ ReadSkip
  \/ ReadLock
  \/ CountRLock
  \/ CountRUnlock
  \/ LazyReadUnlock
  \/ SearchReturn

LazySpec == Init /\ [][LazyNext]_<<vars, lockVars>>

(***************************************************************************)
(* Properties.                                                             *)
(***************************************************************************)
Idle == addPc = "idle"

BothEntries == { idx.entries, cidx.entries }

SortedByScore(r) ==
  \A i, j \in 1..Len(r) : i < j => r[i].Score >= r[j].Score

TiesByAscendingId(r) ==
  \A i, j \in 1..Len(r) : (i < j /\ r[i].Score = r[j].Score) => r[i].DocID < r[j].DocID

NoStats == [DocumentCount |-> 0, TermCount |-> 0]

\* C1: in every reachable state of either index and for every query, every
\* list Search can return is ordered by non-increasing score, and so are the
\* lists the client's last Search did return.
C1_ResultsSortedByScore ==
  /\ \A text \in Queries : \A e \in BothEntries :
       \A r \in SearchResults(e, text) : SortedByScore(r)
  /\ SortedByScore(seqResult)
  /\ SortedByScore(parResult)

\* both engines returned two or more documents of different scores
C1_Witness ==
  /\ query # NoQuery
  /\ Len(seqResult) >= 2 /\ seqResult[1].Score > seqResult[Len(seqResult)].Score
  /\ Len(parResult) >= 2 /\ parResult[1].Score > parResult[Len(parResult)].Score

\* C2: whenever two documents of a Search result have equal scores, the one
\* with the smaller document id comes first, in both engines.
C2_TiesBrokenByAscendingId ==
  /\ TiesByAscendingId(seqResult)
  /\ TiesByAscendingId(parResult)

\* C3: a Search repeated with the same query on an unchanged index returns
\* the same ordered list as before, in both engines.  (Every step that
\* changes an index resets query, so a step that keeps a query is a repeated
\* Search.)
C3_RepeatedSearchSameList ==
  [][(query # NoQuery /\ query' = query)
       => (seqResult' = seqResult /\ parResult' = parResult)]_vars

\* the multiset of (docId, weight) postings of an entry, as a count per pair
PostingCount(entry, d, f) ==
  Cardinality({ i \in 1..Len(entry.DocIDs) : entry.DocIDs[i] = d /\ entry.Freqs[i] = f })

SamePostings(e1, e2) ==
  /\ Len(e1.DocIDs) = Len(e2.DocIDs)
  /\ \A i \in 1..Len(e1.DocIDs) :
       PostingCount(e1, e1.DocIDs[i], e1.Freqs[i]) = PostingCount(e2, e1.DocIDs[i], e1.Freqs[i])

\* C4: after the same Add batches, with every Add returned, the two engines
\* hold the same docCount, the same terms and the same multiset of postings
\* per term, and return for the same query the same documents in the same
\* order.
C4_EnginesSubstitutable ==
  Idle =>
    /\ idx.docCount = cidx.docCount
    /\ DOMAIN idx.entries = DOMAIN cidx.entries
    /\ \A t \in DOMAIN idx.entries : SamePostings(idx.entries[t], cidx.entries[t])
    /\ [i \in 1..Len(seqResult) |-> seqResult[i].DocID]
         = [i \in 1..Len(parResult) |-> parResult[i].DocID]

\* C5: after Clear, Stats reports no documents and no terms, every Search
\* returns the empty list, and a further Clear changes nothing, in both
\* engines.
C5_ClearEmptiesIndex ==
  lastOp.op = "Clear" =>
    /\ IndexStats(idx) = NoStats
    /\ ConcurrentStats(cidx) = NoStats
    /\ \A text \in Queries : \A e \in BothEntries : SearchResults(e, text) = { <<>> }
    /\ IndexClear(idx) = idx
    /\ ConcurrentClear(cidx) = cidx

\* Clear was called on an index that held documents
C5_Witness == lastOp.op = "Clear" /\ lastOp.n > 0

\* C6: Add of an empty batch changes neither docCount nor the term mapping
\* nor a stored weight in either engine, so Stats and every Search result
\* are as before.
C6_AddEmptyIsNoOp ==
  [][Add(<<>>) =>
       /\ idx' = idx
       /\ cidx' = cidx
       /\ IndexStats(idx') = IndexStats(idx)
       /\ ConcurrentStats(cidx') = ConcurrentStats(cidx)
       /\ \A text \in Queries :
            /\ SearchResults(idx'.entries, text) = SearchResults(idx.entries, text)
            /\ SearchResults(cidx'.entries, text) = SearchResults(cidx.entries, text)]_vars

\* Add of an empty batch was called on an index that holds postings
C6_Witness ==
  /\ lastOp = [op |-> "Add", n |-> 0]
  /\ DOMAIN idx.entries # {}
  /\ DOMAIN cidx.entries # {}

\* C7: for every stopword of the configured set and every corpus, Search of
\* the stopword returns the empty list, in both engines.
C7_StopwordQueriesEmpty ==
  \A sw \in StopWords : \A e \in BothEntries : SearchResults(e, sw) = { <<>> }

\* C8: no key of an index is shorter than two characters.
C8_NoShortTerm ==
  \A e \in BothEntries : \A term \in DOMAIN e : Len(term) >= MinTokenLen

\* no two documents of the corpus share an id
UniqueIds == \A i, j \in 1..Len(corpus) : i # j => corpus[i].ID # corpus[j].ID

DocTokens(doc) == Analyzed[doc.Text]

\* count(a, term) / total(a) > count(b, term) / total(b)
HigherTF(a, b, term) ==
  TokenFreq(DocTokens(a), term) * Len(DocTokens(b))
    > TokenFreq(DocTokens(b), term) * Len(DocTokens(a))

Position(r, d) == CHOOSE i \in 1..Len(r) : r[i].DocID = d

\* C9: for a single-term query, a document with a strictly higher term
\* frequency than another document containing the term has the strictly
\* greater score and is ranked before it, whatever Add calls added them.
C9_TFMonotone ==
  (Idle /\ UniqueIds) =>
    \A i, j \in 1..Len(corpus) :
      \A term \in TokenSet(DocTokens(corpus[i])) \cap TokenSet(DocTokens(corpus[j])) :
        HigherTF(corpus[i], corpus[j], term) =>
          \A e \in BothEntries : \A r \in SearchTokens(e, <<term>>) :
            /\ r[Position(r, corpus[i].ID)].Score > r[Position(r, corpus[j].ID)].Score
            /\ Position(r, corpus[i].ID) < Position(r, corpus[j].ID)

\* the score Search gives document d for the single-term query term
TermScore(e, term, d) == AccumulateScores(NoScores, e, <<term>>)[d]

\* C10: of two terms with the same term frequency in their documents, the
\* one occurring in fewer documents of the index scores at least as high.
C10_IDFMonotone ==
  (Idle /\ UniqueIds) =>
    \A i, j \in 1..Len(corpus) :
      \A t1 \in TokenSet(DocTokens(corpus[i])) : \A t2 \in TokenSet(DocTokens(corpus[j])) :
        ( /\ TokenFreq(DocTokens(corpus[i]), t1) * Len(DocTokens(corpus[j]))
               = TokenFreq(DocTokens(corpus[j]), t2) * Len(DocTokens(corpus[i]))
          /\ \A e \in BothEntries : Len(e[t1].DocIDs) < Len(e[t2].DocIDs) )
        => \A e \in BothEntries :
             TermScore(e, t1, corpus[i].ID) >= TermScore(e, t2, corpus[j].ID)

\* the documents of the corpus with id d
CorpusDocs(d) == { corpus[k] : k \in { k \in 1..Len(corpus) : corpus[k].ID = d } }

\* count / total of term in doc, times the IDF of a term with df postings in
\* an index of docCount documents
TfIdf(doc, term, docCount, df) ==
  MulWeight(TermFreq(TokenFreq(DocTokens(doc), term), Len(DocTokens(doc))),
            Idf(docCount, df))

\* the two indexes as records [entries, docCount]
BothIndexes == { idx, cidx }

\* C11: after every Add has returned, each stored posting weight is TF x IDF
\* with the IDF of the current index state, ln(docCount / (postingCount + 1))
\* + 1: one IDF factor, the current one.
C11_WeightIsTFTimesCurrentIDF ==
  (Idle /\ UniqueIds) =>
    \A index \in BothIndexes : \A term \in DOMAIN index.entries :
      LET entry == index.entries[term]
      IN \A i \in 1..Len(entry.DocIDs) : \A doc \in CorpusDocs(entry.DocIDs[i]) :
           entry.Freqs[i] = TfIdf(doc, term, index.docCount, Len(entry.DocIDs))

\* the distinct terms of the documents added since the last Clear
CorpusTerms == UNION { TokenSet(DocTokens(corpus[k])) : k \in 1..Len(corpus) }

\* C12: Stats().DocumentCount is the number of documents passed to Add since
\* creation or the last Clear, documents without terms included (in the
\* parallel engine from the moment Add has counted its batch), and
\* Stats().TermCount is the number of distinct terms in the mapping: once Add
\* has returned, the distinct terms of those documents.
C12_StatsCountDocumentsAndTerms ==
  /\ IndexStats(idx).DocumentCount = Len(corpus)
  /\ ConcurrentStats(cidx).DocumentCount = Len(corpus)
  /\ IndexStats(idx).TermCount = Cardinality(DOMAIN idx.entries)
  /\ ConcurrentStats(cidx).TermCount = Cardinality(DOMAIN cidx.entries)
  /\ DOMAIN idx.entries = CorpusTerms
  /\ Idle => DOMAIN cidx.entries = CorpusTerms

\* an Add of two documents has returned, on an index that now holds three,
\* one of them without terms
C12_Witness ==
  /\ Idle
  /\ lastOp = [op |-> "Add", n |-> 2]
  /\ Len(corpus) = 3
  /\ \E k \in 1..Len(corpus) : ~HasTerms(corpus[k])
  /\ CorpusTerms # {}

\* no term of the analyzed text has an entry: the index is empty, the text
\* is empty or blank or analyses to no term, or its terms match nothing
NoMatch(entries, text) ==
  \A i \in 1..Len(Analyzed[text]) : Analyzed[text][i] \notin DOMAIN entries

C13_EmptyResult ==
  /\ \A text \in AllQueries : \A e \in BothEntries :
       NoMatch(e, text) => SearchResults(e, text) = { <<>> }
  /\ (query # NoQuery /\ NoMatch(idx.entries, query)) => seqResult = <<>>
  /\ (query # NoQuery /\ NoMatch(cidx.entries, query)) => parResult = <<>>

C13_IndexKept ==
  \A text \in AllQueries : Search(text) => (idx' = idx /\ cidx' = cidx)

\* C13: Search on an empty index, with an empty or blank query, with a query
\* that analyses to no term, or whose terms match nothing returns the empty
\* result (Search has no other outcome, there is no error value), and
\* Search leaves both indexes as they were.
C13_NoErrorOutcome == [](C13_EmptyResult) /\ [][C13_IndexKept]_vars

\* Search of a blank query returned on a non-empty index
C13_Witness ==
  /\ query = QSpace
  /\ lastOp.op = "Search"
  /\ DOMAIN idx.entries # {}
  /\ DOMAIN cidx.entries # {}
  /\ seqResult = <<>> /\ parResult = <<>>

\* the analyzed query without the terms that have no entry
PresentTerms(entries, tokens) == SelectSeq(tokens, LAMBDA t : t \in DOMAIN entries)

\* C14: for every index state and every query, Search returns what it
\* returns for the same query with the terms absent from the index removed:
\* an absent term adds no score, no penalty and no error.
C14_AbsentTermsContributeNothing ==
  /\ \A text \in Queries : \A e \in BothEntries :
       PresentTerms(e, Analyzed[text]) # Analyzed[text] =>
         SearchTokens(e, Analyzed[text]) = SearchTokens(e, PresentTerms(e, Analyzed[text]))
  /\ query # NoQuery =>
       /\ seqResult \in SearchTokens(idx.entries, PresentTerms(idx.entries, Analyzed[query]))
       /\ parResult \in SearchTokens(cidx.entries, PresentTerms(cidx.entries, Analyzed[query]))

\* Search of "donut glass" returned documents from indexes that hold "donut"
\* and do not hold "glass"
C14_Witness ==
  /\ query = QDonutGlass
  /\ \A e \in BothEntries : QDonut \in DOMAIN e /\ QGlass \notin DOMAIN e
  /\ seqResult # <<>>
  /\ parResult # <<>>

PositiveScores(r) == \A i \in 1..Len(r) : r[i].Score > 0

\* C15: every result of Search has a strictly positive score: the scores
\* Search accumulates for a query and builds its results from are strictly
\* positive, and so are the scores of the lists it returned.  In every
\* reachable state, also while a parallel Add is in flight, an entry has at
\* most docCount postings, so its IDF is strictly positive, and every stored
\* weight is strictly positive.
C15_ScoresPositive ==
  /\ \A index \in BothIndexes : \A term \in DOMAIN index.entries :
       LET entry == index.entries[term]
       IN /\ Len(entry.DocIDs) <= index.docCount
          /\ Idf(index.docCount, Len(entry.DocIDs)) > 0
          /\ \A i \in 1..Len(entry.Freqs) : entry.Freqs[i] > 0
  /\ \A text \in Queries : \A e \in BothEntries :
       LET scores == AccumulateScores(NoScores, e, Analyzed[text])
       IN \A d \in DOMAIN scores : scores[d] > 0
  /\ PositiveScores(seqResult)
  /\ PositiveScores(parResult)

\* Search returned documents for a term that every document of the index
\* holds: as many postings as docCount, the smallest IDF there is
C15_Witness ==
  /\ query # NoQuery
  /\ seqResult # <<>>
  /\ parResult # <<>>
  /\ cidx.docCount >= 2
  /\ \E term \in TokenSet(Analyzed[query]) \cap DOMAIN cidx.entries :
       Len(cidx.entries[term].DocIDs) = cidx.docCount

\* the postings of entry that carry document id d
IdCount(entry, d) == Cardinality({ i \in 1..Len(entry.DocIDs) : entry.DocIDs[i] = d })

\* the documents of the corpus with id d that contain term
Holders(term, d) ==
  { k \in 1..Len(corpus) : corpus[k].ID = d /\ term \in TokenSet(DocTokens(corpus[k])) }

\* C16: when the parallel Add has returned, no worker is left running and no
\* document is left unsent or unreceived; every document with terms has, in
\* the entry of each of its terms, exactly one posting (processed once, by
\* one worker); and the IDF pass has been applied: the weights are those of
\* the sequential engine, TF x IDF after a first Add.
C16_AddIsBulkSynchronous ==
  Idle =>
    /\ workers = EmptyBag
    /\ toSend = <<>>
    /\ docChan = <<>>
    /\ \A k \in 1..Len(corpus) : \A term \in TokenSet(DocTokens(corpus[k])) :
         /\ term \in DOMAIN cidx.entries
         /\ IdCount(cidx.entries[term], corpus[k].ID)
              = Cardinality(Holders(term, corpus[k].ID))
    /\ DOMAIN cidx.entries = DOMAIN idx.entries
    /\ \A term \in DOMAIN cidx.entries :
         /\ SamePostings(idx.entries[term], cidx.entries[term])
         /\ (UniqueIds /\ lastOp.op = "Add" /\ lastOp.n = Len(corpus)) =>
              LET entry == cidx.entries[term]
              IN \A i \in 1..Len(entry.DocIDs) : \A doc \in CorpusDocs(entry.DocIDs[i]) :
                   entry.Freqs[i] = TfIdf(doc, term, cidx.docCount, Len(entry.DocIDs))

\* a parallel Add of two documents that both have terms has returned
C16_Witness ==
  /\ Idle
  /\ lastOp = [op |-> "Add", n |-> 2]
  /\ Len(corpus) = 2
  /\ \A k \in 1..Len(corpus) : HasTerms(corpus[k])
  /\ corpus[1].ID # corpus[2].ID

\* analyze maps the variants of a group to one and the same term, the base
\* word of the group
VariantsShareTerm ==
  \A vs \in StemVariants : \A a, b \in vs :
    /\ Analyzed[a] = Analyzed[b]
    /\ \E w \in vs : Analyzed[a] = <<w>>

\* C17: the morphological variants of a word stem identically: analyze of
\* "donut" and of "donuts", of "fish", "fishing" and "fished", of "cat" and
\* of "cats" each yield the one term that is the base word, so Search of a
\* variant returns what Search of any other variant returns, whenever the
\* client can call Search.
C17_VariantsStemIdentically ==
  /\ VariantsShareTerm
  /\ Idle =>
       \A vs \in StemVariants : \E a \in vs : \A b \in vs \ {a} : \A e \in BothEntries :
         SearchResults(e, a) = SearchResults(e, b)
  /\ query = QDonuts =>
       /\ seqResult \in SearchResults(idx.entries, QDonut)
       /\ parResult \in SearchResults(cidx.entries, QDonut)

\* Search of "donuts" returned the document whose text is "donut"
C17_Witness ==
  /\ query = QDonuts
  /\ corpus = <<[ID |-> 1, Text |-> TDonut]>>
  /\ Len(seqResult) = 1 /\ seqResult[1].DocID = 1
  /\ Len(parResult) = 1 /\ parResult[1].DocID = 1

\* the batch without its documents that have no terms
WithTerms(docs) == SelectSeq(docs, HasTerms)

\* the corpus is the batch of the one Add made since the index was empty
FirstAddReturned == Idle /\ lastOp.op = "Add" /\ lastOp.n = Len(corpus)

\* C18 as stated: a document without terms is skipped, so the term mapping
\* and all postings, weights included, are after Add what they would be had
\* the document not been in the batch.
C18_SkippedDocumentChangesNothing ==
  /\ [][\A docs \in Batches :
          Add(docs) => idx'.entries = IndexAdd(idx, WithTerms(docs)).entries]_vars
  /\ [](FirstAddReturned =>
          LET without == IndexAdd(EmptyIndex, WithTerms(corpus)).entries
          IN /\ DOMAIN cidx.entries = DOMAIN without
             /\ \A term \in DOMAIN without : SamePostings(cidx.entries[term], without[term]))

\* C18 amended: a document without terms creates no entry and appends no
\* posting.  After Add the term mapping and the document ids of every entry
\* are those of the batch without the document; the weights are those of
\* that batch under the IDF of a docCount that counts the skipped document.
C18_SkippedDocumentAddsNoPosting ==
  /\ [][\A docs \in Batches :
          Add(docs) =>
            idx'.entries =
              IF Len(docs) = 0 THEN idx.entries
              ELSE calculateIDF(AddDocuments(idx.entries, WithTerms(docs)),
                                idx.docCount + Len(docs))]_vars
  /\ [](Idle =>
          /\ DOMAIN cidx.entries = DOMAIN idx.entries
          /\ \A term \in DOMAIN cidx.entries :
               /\ SamePostings(idx.entries[term], cidx.entries[term])
               /\ \A k \in 1..Len(corpus) : \A index \in BothIndexes :
                    IdCount(index.entries[term], corpus[k].ID)
                      = Cardinality(Holders(term, corpus[k].ID))
          /\ FirstAddReturned =>
               LET without == calculateIDF(AddDocuments(NoEntries, WithTerms(corpus)),
                                           Len(corpus))
               IN /\ DOMAIN cidx.entries = DOMAIN without
                  /\ \A term \in DOMAIN without :
                       SamePostings(cidx.entries[term], without[term]))

\* an Add of a document with terms and a document without terms has returned
C18_Witness ==
  /\ FirstAddReturned
  /\ Len(corpus) = 2
  /\ HasTerms(corpus[1])
  /\ ~HasTerms(corpus[2])
  /\ DOMAIN idx.entries # {}
  /\ DOMAIN cidx.entries # {}

\* DocIDs and Freqs of an entry have one length
EqualLengths(entry) == Len(entry.DocIDs) = Len(entry.Freqs)

\* C19: DocIDs and Freqs of every entry have equal length and are paired by
\* position: in every state of the sequential index, in every state of the
\* parallel index in which the entry's lock is not held exclusively (every
\* weight then stands at the position of the document it was computed
\* for), and so for the entry a Search holds the shared lock of.
C19_EntryPairsIdsWithWeights ==
  /\ \A term \in DOMAIN idx.entries : EqualLengths(idx.entries[term])
  /\ \A term \in DOMAIN pidx.entries :
       ~pidx.entries[term].RWMutex.w =>
         /\ EqualLengths(pidx.entries[term])
         /\ pidx.entries[term].Owners = pidx.entries[term].DocIDs
  /\ reader.held # NoTerm =>
       /\ EqualLengths(pidx.entries[reader.held])
       /\ pidx.entries[reader.held].Owners = pidx.entries[reader.held].DocIDs

\* a Search holds the shared lock of an entry with two postings while a
\* worker, inside the lock of another entry, has appended the document id
\* and not yet the weight
C19_Witness ==
  /\ reader.held # NoTerm
  /\ Len(pidx.entries[reader.held].DocIDs) = 2
  /\ \E term \in DOMAIN pidx.entries :
       /\ pidx.entries[term].RWMutex.w
       /\ Len(pidx.entries[term].DocIDs) = Len(pidx.entries[term].Freqs) + 1

\* the workers of call c inside the lock of the entry of term
Appending(c, term) ==
  [w \in { w \in DOMAIN c.workers : w.pc = "locked" /\ w.token = term } |-> c.workers[w]]

\* the goroutines of call c that write to the entry of term: its workers
\* between Lock and Unlock and its IDF pass between Lock and Unlock
CallWriters(c, term) ==
  BagCardinality(Appending(c, term)) + (IF c.held = term THEN 1 ELSE 0)

RECURSIVE WritersOf(_, _)
WritersOf(cs, term) ==
  IF cs = {} THEN 0
  ELSE LET c == CHOOSE c \in cs : TRUE
       IN calls[c] * CallWriters(c, term) + WritersOf(cs \ {c}, term)

\* the writers of all Add calls in flight inside the entry of term
Writers(term) == WritersOf(DOMAIN calls, term)

\* the Search calls that read the entry of term
Readers(term) == IF reader.held = term THEN 1 ELSE 0

\* C20: at most one writer (a worker of any Add call in flight, or an IDF
\* pass) is inside the critical section of an entry at a time, and no
\* Search reads the entry while a writer is inside; the entry's RWMutex
\* says who is inside.
C20_EntryMutualExclusion ==
  \A term \in DOMAIN pidx.entries :
    /\ Writers(term) <= 1
    /\ Writers(term) = 1 => Readers(term) = 0
    /\ pidx.entries[term].RWMutex.w <=> Writers(term) = 1
    /\ pidx.entries[term].RWMutex.r = Readers(term)

\* the IDF pass of one Add call holds the lock of an entry, a worker of
\* another Add call has a posting to append to that entry, and a Search
\* has that entry to read next
C20_Witness ==
  \E c \in DOMAIN calls : \E d \in DOMAIN calls \ {c} : \E w \in DOMAIN d.workers :
    /\ c.pc = "idf"
    /\ c.held # NoTerm
    /\ w.pc = "append"
    /\ c.held \in w.todo
    /\ reader.pc = "scan"
    /\ reader.held = NoTerm
    /\ reader.tokens # <<>>
    /\ Head(reader.tokens) = c.held

\* no lock was taken while the index lock was held: the index lock, when it
\* is among the locks a goroutine holds, is the last one it took
IndexLockLast(locks) ==
  \A i \in 1..Len(locks) : locks[i] = IndexLock => i = Len(locks)

\* the calls of the Add callers that hold the index lock
IndexWriters ==
  BagCardinality([c \in { c \in DOMAIN calls : IndexLock \in TokenSet(c.locks) } |-> calls[c]])

\* C21: a goroutine that holds an entry's lock and the index lock took the
\* entry's lock first, and no goroutine takes an entry's lock while it
\* holds the index lock; the index lock is held by exactly the goroutines
\* that have it among their locks.
C21_EntryLockBeforeIndexLock ==
  /\ IndexLockLast(reader.locks)
  /\ \A c \in DOMAIN calls :
       /\ IndexLockLast(c.locks)
       /\ \A w \in DOMAIN c.workers : w.pc = "locked" => IndexLock \notin TokenSet(c.locks)
  /\ pidx.RWMutex.r = (IF IndexLock \in TokenSet(reader.locks) THEN 1 ELSE 0)
  /\ pidx.RWMutex.w <=> IndexWriters = 1
  /\ IndexWriters <= 1

\* a Search holds the shared lock of an entry and, taken after it, the
\* index lock, while an Add call is in flight
C21_Witness ==
  /\ reader.held # NoTerm
  /\ reader.locks = <<reader.held, IndexLock>>
  /\ calls # EmptyBag

\* C22: under fair scheduling every Add call in flight returns and the
\* Search in flight returns: the sender does not wait forever on the full
\* channel, every worker leaves after close(docChan), wg.Wait() and the IDF
\* pass come to an end, and no goroutine waits forever for a lock.
C22_AddAndSearchReturn ==
  /\ (calls # EmptyBag) ~> (calls = EmptyBag)
  /\ (reader.pc # "idle") ~> (reader.pc = "idle")

\* the sender waits on the full channel for a worker to receive, while a
\* Search is in flight
C22_Witness ==
  \E c \in DOMAIN calls :
    /\ c.pc = "send"
    /\ c.toSend # <<>>
    /\ Len(c.docChan) = ChanCap
    /\ reader.pc = "scan"

\* the workers of call c between indexEntry.Lock() and indexEntry.Unlock()
LockedWorkers(c) ==
  [w \in { w \in DOMAIN c.workers : w.pc = "locked" } |-> c.workers[w]]

RECURSIVE EntryLockHolders(_)
\* the goroutines, of all Add calls in flight, that are inside the lock of
\* an entry: workers and IDF passes
EntryLockHolders(cs) ==
  IF cs = {} THEN 0
  ELSE LET c == CHOOSE c \in cs : TRUE
       IN calls[c] * (BagCardinality(LockedWorkers(c)) + (IF c.held # NoTerm THEN 1 ELSE 0))
          + EntryLockHolders(cs \ {c})

\* the entries locked exclusively
WriteLocked == { t \in DOMAIN pidx.entries : pidx.entries[t].RWMutex.w }

\* C23: a worker inside its critical section holds the lock of the one
\* entry it appends to and no other lock: as many entries are locked
\* exclusively as goroutines are inside a critical section, and the index
\* lock is held only by a caller of Add that is counting its batch, before
\* it has started a worker.
C23_WorkersHoldOneEntryLock ==
  /\ Cardinality(WriteLocked) = EntryLockHolders(DOMAIN calls)
  /\ \A c \in DOMAIN calls :
       /\ \A w \in DOMAIN c.workers :
            w.pc = "locked" => w.token \in WriteLocked /\ w.token \in w.todo
       /\ IndexLock \in TokenSet(c.locks) => c.workers = EmptyBag
  /\ pidx.RWMutex.w => IndexWriters = 1

\* two workers are inside the critical sections of the entries of two
\* distinct terms at once
C23_Witness ==
  \E c, d \in DOMAIN calls : \E w \in DOMAIN c.workers : \E v \in DOMAIN d.workers :
    /\ w.pc = "locked"
    /\ v.pc = "locked"
    /\ w.token # v.token
    /\ pidx.entries[w.token].RWMutex.w
    /\ pidx.entries[v.token].RWMutex.w

\* call c is inside calculateIDF with an entry locked: its next step reads
\* idx.docCount
ReadsDocCount(c) == c.pc = "idf" /\ c.held # NoTerm

\* C24: docCount is read and written under the index lock only, so no
\* goroutine is about to read docCount without the index lock while a
\* concurrent Add holds the index lock to increment it.
C24_DocCountGuardedByIndexLock ==
  \A c \in DOMAIN calls :
    ReadsDocCount(c) /\ IndexLock \notin TokenSet(c.locks) => ~pidx.RWMutex.w

\* C25: when every Add call has returned, however the calls and their
\* workers interleaved, docCount is the sum of the batch sizes, the terms
\* are those of the documents added, every entry holds a document id as
\* many times as the document was added (once, for a document added once:
\* the sequential index, given the same batches, is the record of that),
\* and a weight for every id.
C25_NoLostUpdates ==
  calls = EmptyBag =>
    /\ pidx.docCount = idx.docCount
    /\ DOMAIN pidx.entries = DOMAIN idx.entries
    /\ \A t \in DOMAIN pidx.entries :
         /\ EqualLengths(pidx.entries[t])
         /\ Len(pidx.entries[t].DocIDs) = Len(idx.entries[t].DocIDs)
         /\ \A doc \in LockDocs :
              IdCount(pidx.entries[t], doc.ID) = IdCount(idx.entries[t], doc.ID)
    /\ \A doc \in LockDocs : \A t \in TokenSet(Analyzed[doc.Text]) :
         (\E u \in DOMAIN idx.entries : IdCount(idx.entries[u], doc.ID) = 1) =>
           t \in DOMAIN pidx.entries /\ IdCount(pidx.entries[t], doc.ID) = 1

\* two Add calls of one document each have returned, and the posting of
\* the call that started second stands before the posting of the call that
\* started first: the calls overlapped
C25_Witness ==
  /\ calls = EmptyBag
  /\ pidx.docCount = 2
  /\ \E t \in DOMAIN pidx.entries :
       /\ idx.entries[t].DocIDs = <<1, 2>>
       /\ pidx.entries[t].DocIDs = <<2, 1>>

\* the documents of the corpus with id d that hold term, by position
Adds(term, d) ==
  { k \in 1..Len(corpus) : corpus[k].ID = d /\ term \in TokenSet(DocTokens(corpus[k])) }

RECURSIVE WeightSum(_, _, _)
\* the sum of the weights of the postings of document d in entry, from
\* position i on
WeightSum(entry, d, i) ==
  IF i > Len(entry.DocIDs) THEN 0
  ELSE (IF entry.DocIDs[i] = d THEN entry.Freqs[i] ELSE 0) + WeightSum(entry, d, i + 1)

RECURSIVE QuerySum(_, _, _)
\* the sum, over the query terms that have an entry, of the weights of the
\* postings of document d
QuerySum(entries, tokens, d) ==
  IF tokens = <<>> THEN 0
  ELSE (IF Head(tokens) \in DOMAIN entries THEN WeightSum(entries[Head(tokens)], d, 1) ELSE 0)
       + QuerySum(entries, Tail(tokens), d)

\* the list r names every document once, with the sum of the weights of all
\* its postings under the query terms
OncePerIdWithSum(r, entries, tokens) ==
  /\ \A i, j \in 1..Len(r) : i # j => r[i].DocID # r[j].DocID
  /\ \A i \in 1..Len(r) : r[i].Score = QuerySum(entries, tokens, r[i].DocID)

\* C26: a document id added again accumulates.  Whenever no Add is in
\* flight, docCount counts every Add of the id, every entry holds the id
\* once for every document added under that id that has the term, and
\* Search gives the id one score, the sum of the weights of all its
\* postings under the query terms.
C26_ReaddedIdAccumulates ==
  /\ Idle =>
       \A index \in BothIndexes :
         /\ index.docCount = Len(corpus)
         /\ \A t \in DOMAIN index.entries : \A doc \in Docs :
              IdCount(index.entries[t], doc.ID) = Cardinality(Adds(t, doc.ID))
         /\ \A text \in Queries :
              LET scores == AccumulateScores(NoScores, index.entries, Analyzed[text])
              IN \A d \in DOMAIN scores :
                   scores[d] = QuerySum(index.entries, Analyzed[text], d)
  /\ query # NoQuery =>
       /\ OncePerIdWithSum(seqResult, idx.entries, Analyzed[query])
       /\ OncePerIdWithSum(parResult, cidx.entries, Analyzed[query])

\* one document was added twice, in two Add calls, and Search has returned
\* its id once, with the sum of its two weights
C26_Witness ==
  /\ Len(corpus) = 2
  /\ corpus[1] = corpus[2]
  /\ lastOp.op = "Search"
  /\ Len(seqResult) = 1
  /\ Len(parResult) = 1
  /\ \E t \in DOMAIN idx.entries :
       /\ Analyzed[query] = <<t>>
       /\ idx.entries[t].DocIDs = <<seqResult[1].DocID, seqResult[1].DocID>>
       /\ idx.entries[t].Freqs[1] # idx.entries[t].Freqs[2]
       /\ seqResult[1].Score = idx.entries[t].Freqs[1] + idx.entries[t].Freqs[2]

\* a term as the specification defines it: at least two characters long
\* (so not empty) and no stopword
IsTerm(term) == Len(term) >= MinTokenLen /\ term \notin StopWords

\* C27: every key of either index, and every token the analyzer makes of a
\* text, is a term: not empty, at least 2 characters long, no stopword.
C27_KeysAreTerms ==
  /\ \A e \in BothEntries : \A term \in DOMAIN e : IsTerm(term)
  /\ \A text \in DOMAIN Analyzed : \A term \in TokenSet(Analyzed[text]) : IsTerm(term)

\* the ids that have a posting under a query term
Matching(entries, tokens) ==
  UNION { { entries[t].DocIDs[i] : i \in 1..Len(entries[t].DocIDs) } :
            t \in TokenSet(tokens) \cap DOMAIN entries }

\* the ids of the list r
ResultIds(r) == { r[i].DocID : i \in 1..Len(r) }

\* the list r names exactly the ids of the set, each once
ExactlyOnce(r, ids) == ResultIds(r) = ids /\ Len(r) = Cardinality(ids)

\* C28: in every state of either index and for every query, Search scores
\* exactly the ids that have a posting under a term of the analysed query,
\* and the list it returns names each of them once, also when the query
\* names a term twice or an id has several postings.
C28_ResultIsMatchingIds ==
  /\ \A e \in BothEntries : \A text \in AllQueries :
       DOMAIN AccumulateScores(NoScores, e, Analyzed[text]) = Matching(e, Analyzed[text])
  /\ \A e \in BothEntries : \A r \in SearchResults(e, QDonutDonuts) :
       ExactlyOnce(r, Matching(e, Analyzed[QDonutDonuts]))
  /\ query # NoQuery =>
       /\ ExactlyOnce(seqResult, Matching(idx.entries, Analyzed[query]))
       /\ ExactlyOnce(parResult, Matching(cidx.entries, Analyzed[query]))

\* Search of a query that names a term twice has returned two documents,
\* one of which has two postings under the term
C28_Witness ==
  /\ query = QDonutDonuts
  /\ Len(Analyzed[query]) = 2
  /\ Analyzed[query][1] = Analyzed[query][2]
  /\ Len(seqResult) = 2
  /\ Len(parResult) = 2
  /\ Len(idx.entries[Analyzed[query][1]].DocIDs) = 3

\* the (id, score) pairs of the list r
Scored(r) == { r[i] : i \in 1..Len(r) }

\* a step that ends in a return of Search or of Stats is a Search or a Stats
\* step: it leaves both indexes (docCount, the terms, every entry's DocIDs
\* and Freqs) as they were; Stats reports the counts of those indexes; and
\* a Search of the text searched last, on indexes unchanged since, returns
\* the scores it returned then
C29_Frame ==
  lastOp'.op \in { "Search", "Stats" } =>
    /\ idx' = idx
    /\ cidx' = cidx
    /\ lastOp'.op = "Stats" =>
         /\ lastOp'.seq = [DocumentCount |-> idx.docCount,
                           TermCount |-> Cardinality(DOMAIN idx.entries)]
         /\ lastOp'.par = [DocumentCount |-> cidx.docCount,
                           TermCount |-> Cardinality(DOMAIN cidx.entries)]
         /\ <<query', seqResult', parResult'>> = <<query, seqResult, parResult>>
    /\ (lastOp'.op = "Search" /\ query' = query) =>
         /\ Scored(seqResult') = Scored(seqResult)
         /\ Scored(parResult') = Scored(parResult)

\* C29: Search and Stats are read-only in both engines: neither changes
\* docCount, the set of terms or any entry, a repeated Search on the
\* unchanged index returns the same scores, and nothing of a result is kept
\* in the index.
C29_SearchAndStatsReadOnly == [][C29_Frame]_vars

\* Stats has returned after a Search that returned two documents of equal
\* score, on indexes that hold terms and have not changed since
C29_Witness ==
  /\ lastOp.op = "Stats"
  /\ lastOp.seq.TermCount = 2
  /\ lastOp.par.DocumentCount = 2
  /\ query # NoQuery
  /\ Len(seqResult) = 2
  /\ seqResult[1].Score = seqResult[2].Score
  /\ Len(parResult) = 2

\* token sequences as they reach stopwordFilter: the input of
\* TestStopwordFilter, the same with a token repeated, and the tokens of
\* the documents added
FilterInputs ==
  { TIAmTheCat, TIAmTheCat \o TIAmTheCat }
    \cup { characterFilter(lowercaseFilter(tokenize(corpus[k].Text))) : k \in 1..Len(corpus) }

\* stopwordFilter returns the tokens that are no stopwords, in their order,
\* a repeated token as often as it stands in the input
KeepsNonStopwords ==
  \A tokens \in FilterInputs :
    stopwordFilter(tokens) = SelectSeq(tokens, LAMBDA t : t \notin StopWords)

\* C30: stopwordFilter(["i","am","the","cat"]) = ["am","cat"], and in
\* general stopwordFilter returns exactly the tokens of its input that are
\* no stopwords, order and duplicates preserved.
C30_StopwordFilterKeepsAmCat ==
  /\ stopwordFilter(TIAmTheCat) = << <<"a","m">>, <<"c","a","t">> >>
  /\ KeepsNonStopwords

\* TestCharacterFilter: the table of inputs and expected results
CharacterFilterTests ==
  { [input |-> << <<"!","h","e","l","l","o","!">>, <<".","w","o","r","l","d",".">>, <<"?","t","e","s","t","?">> >>,
     expected |-> << <<"h","e","l","l","o">>, <<"w","o","r","l","d">>, <<"t","e","s","t">> >>],
    [input |-> << <<"a">>, <<"a","b">>, <<"a","b","c">> >>,
     expected |-> << <<"a","b">>, <<"a","b","c">> >>],
    [input |-> << <<"h","e","l","l","o","1","2","3">>, <<"t","e","s","t","4","2","w","o","r","l","d">>, <<"1","2","3","t","e","s","t">> >>,
     expected |-> << <<"h","e","l","l","o","1","2","3">>, <<"t","e","s","t","4","2","w","o","r","l","d">>, <<"1","2","3","t","e","s","t">> >>],
    [input |-> << <<"@","u","s","e","r","#","n","a","m","e">>, <<"$","p","r","i","c","e","1","0","0">>, <<"e","m","a","i","l","@","d","o","m","a","i","n">> >>,
     expected |-> << <<"u","s","e","r","#","n","a","m","e">>, <<"p","r","i","c","e","1","0","0">>, <<"e","m","a","i","l","@","d","o","m","a","i","n">> >>],
    [input |-> << <<>>, <<"!">>, <<"@">>, <<"a">>, <<"#","b","#">> >>,
     expected |-> <<>>],
    [input |-> << <<"2","0","2","3">>, <<"v","e","r","s","i","o","n","2",".","0">>, <<"!","2","0","2","4","!">> >>,
     expected |-> << <<"2","0","2","3">>, <<"v","e","r","s","i","o","n","2",".","0">>, <<"2","0","2","4">> >>] }

\* token sequences as they reach characterFilter: the inputs of
\* TestCharacterFilter and the lowercased tokens of the documents added
CharacterFilterInputs ==
  { c.input : c \in CharacterFilterTests }
    \cup { lowercaseFilter(tokenize(corpus[k].Text)) : k \in 1..Len(corpus) }

\* the tokens trimmed, one by one
Trimmed(tokens) == [i \in 1..Len(tokens) |-> TrimFunc(tokens[i])]

\* C31: characterFilter strips from every token the leading and trailing
\* characters that are neither letters nor digits and leaves the inner
\* ones, drops the tokens that are then shorter than 2 characters, keeps
\* the others in their order, and gives the results TestCharacterFilter
\* expects (the empty sequence for an input of empty and too short tokens).
C31_CharacterFilterTrimsAndDrops ==
  /\ \A c \in CharacterFilterTests : characterFilter(c.input) = c.expected
  /\ \A tokens \in CharacterFilterInputs :
       characterFilter(tokens) =
         SelectSeq(Trimmed(tokens), LAMBDA t : Len(t) >= MinTokenLen)

====
